---- MODULE Spec2Model ----
(***************************************************************************)
(* Checkpoint (sys_isvpcb) and Restore (sys_ildpcb) of xv6-public/sysfile.c *)
(* as a state machine over the process table, the system file table, the   *)
(* per-process open-file tables and the five artifact files.               *)
(*                                                                         *)
(* Files are modelled at record granularity: the pages artifact is a       *)
(* sequence of page-size blocks, the flag artifact a sequence of flag      *)
(* words, the other three hold at most one fixed-size record.  A handle's  *)
(* offset counts records.                                                  *)
(***************************************************************************)
EXTENDS Integers, Sequences, FiniteSets, TLC

\* ---------------------------------------------------------------- constants
PGSIZE == 4096
NOFILE == 16
NFILE == 100
O_RDONLY == 0
O_WRONLY == 1
O_RDWR == 2
O_CREATE == 512
PTE_P == 1
PTE_W == 2
PTE_U == 4

\* ------------------------------------------------------------------- bounds
MaxProc == 3
MaxPages == 2
MaxFaults == 1
MaxCalls == 2

Slots == 1..MaxProc
Artifacts == {"pages", "flag", "context", "trapframe", "proc"}
Records == <<"context", "trapframe", "proc">>
\* The root directory, and a path under a directory that does not exist.
Root == "."
Orphan == "nodir/x"
Paths == Artifacts \cup {Root, Orphan}

\* A value no checkpoint ever wrote: the content of an uninitialised buffer.
Junk == -1
\* What proc->ofile[-1] yields: not a pointer to any struct file.
BadFile == -1
\* A pointer that is not the address of any kernel stack.
WildPtr == 0

\* Process sizes: the page multiples from one page up, and one byte past each
\* of them but the largest (sbrk moves proc->sz by any number of bytes).
Sizes == {k * PGSIZE : k \in 1..MaxPages} \cup {k * PGSIZE + 1 : k \in 1..(MaxPages - 1)}
\* Number of iterations of  for (i = 0; i < sz; i += PGSIZE).
NPages(sz) == (sz + PGSIZE - 1) \div PGSIZE
\* The page table of a process of size sz: present user pages, the first of
\* them not writable.
PageTable(sz) == [k \in 1..NPages(sz) |-> IF k = 1 THEN PTE_P + PTE_U ELSE PTE_P + PTE_W + PTE_U]
\* Descriptors in use when the call is made (0,1,2 are the console).
Levels == {3, NOFILE - 1, NOFILE}

VARIABLES
    ptable,     \* slot -> [state, pid, sz, pgdir, ofile]
    kstack,     \* slot -> [context, tf]: the storage proc->context / proc->tf point to
    ftable,     \* allocated struct file's: id -> [name, off, readable, writable, ref]
    fsys,       \* artifact name -> [type, data]
    pc,         \* slot -> position of the process in its system call
    loc,        \* slot -> local variables of the running system call
    ret,        \* slot -> <<>> or <<value returned by the last system call>>
    msgs,       \* slot -> what the running system call has printed with cprintf
    nextpid,
    faults,     \* failures injected so far (short writes, a full file table)
    calls,      \* system calls entered so far
    panicked,   \* the kernel has panicked: nothing runs any more
    lastck,     \* the process whose Checkpoint was the last call to touch the artifacts
                \* and ran to "Write is done" (0: none, or one has started since)
    gh,         \* slot -> what the current (or last) system call of the process did
    fslayer,    \* the log, the inode locks, the directory and the link counts
    fscall      \* the last call of sys_open / the_opener / sys_link / sys_pipe made
                \* directly by a process: its arguments, the state it found, its result

vars == <<ptable, kstack, ftable, fsys, pc, loc, ret, msgs, nextpid,
          faults, calls, panicked, lastck, gh, fslayer, fscall>>

\* ------------------------------------------------------------------ helpers
Min(S) == CHOOSE x \in S : \A y \in S : x <= y

\* The bit of omode that mask (a power of two) names.
Bit(omode, mask) == (omode \div mask) % 2 = 1

EmptyOfile == [fd \in 0..(NOFILE - 1) |-> 0]

NoLocals ==
    [fd |-> 0, fd2 |-> 0, f |-> 0, f2 |-> 0, i |-> 0, file_size |-> 0, stage |-> 1,
     fds |-> [a \in Artifacts |-> 0], fls |-> [a \in Artifacts |-> 0],
     loaded_context |-> Junk, loaded_tf |-> Junk,
     loaded_proc |-> [pid |-> Junk, sz |-> 0, context |-> WildPtr, tf |-> WildPtr,
                      ofile |-> EmptyOfile],
     pid |-> 0]

NoWrites == [a \in Artifacts |-> 0]

\* History of one system call:
\*   call      "isvpcb" or "ildpcb" ("none" before the first call)
\*   openfail  artifacts whose the_opener call returned -1
\*   oob       kinds of access ("r", "w") made to ofile[] at a negative index
\*   deref     link fields of the loaded proc record that were written through
\*   wrote     artifact -> records written successfully
\*   short     a filewrite through a struct file transferred fewer bytes
\*   late      a filewrite was made after a short one
\*   shortread a fileread through a struct file returned fewer bytes
\*   gotproc   the proc record was read in full
\*   mismatch  the loader saw a recorded size other than flag entries x PGSIZE
\*   newslot   the process table slot the loader filled (0: none)
\*   src       lastck when Restore was entered
\*   free      free descriptor slots when the call was entered
\*   ofile0    the open-file table of the caller when the call was entered
\*   pgdir0    the page table of the caller when the call was entered
\*   result    what load_the_proc returned (0 before it has)
NoHistory ==
    [call |-> "none", openfail |-> {}, oob |-> {}, deref |-> {}, wrote |-> NoWrites, short |-> FALSE,
     late |-> FALSE, shortread |-> FALSE, gotproc |-> FALSE, mismatch |-> FALSE,
     newslot |-> 0, src |-> 0, free |-> 0, ofile0 |-> EmptyOfile, pgdir0 |-> <<>>,
     result |-> 0]

\* fdalloc: the lowest free slot of the open-file table, -1 when there is none.
FdFree(of) == {fd \in 0..(NOFILE - 1) : of[fd] = 0}
fdalloc_last(of) ==
    IF FdFree(of) = {} THEN -1 ELSE CHOOSE x \in FdFree(of) : \A y \in FdFree(of) : y <= x

fdalloc(of) == IF FdFree(of) = {} THEN -1 ELSE Min(FdFree(of))

\* filealloc: the first struct file with ref = 0; 0 when the table is full
\* (full: the other processes of the system hold every remaining entry).
filealloc(ft, full) ==
    IF full \/ Cardinality(DOMAIN ft) >= NFILE
    THEN 0
    ELSE Min({h \in 1..NFILE : h \notin DOMAIN ft})

\* fileclose on a valid struct file: drop one reference, free it at zero.
fileclose(ft, h) ==
    IF ft[h].ref > 1
    THEN [ft EXCEPT ![h].ref = @ - 1]
    ELSE [g \in DOMAIN ft \ {h} |-> ft[g]]

\* A path whose parent directory nameiparent resolves (Orphan names a
\* directory that does not exist).
HasParent(path) == path # Orphan

\* File-system steps a call takes, in order: <<step, path of the inode>>.
\*   begin_op / end_op    open and close a log transaction
\*   iget                 a reference obtained from namei / nameiparent /
\*                        dirlookup / ialloc
\*   ilock / iunlock      the inode's sleep lock
\*   iunlockput / iput    give the reference back (after unlocking)
\*   keep                 the reference is handed to a struct file (f->ip = ip)
\*   ialloc, dirlink      a new inode, a new directory entry
\*   inc / dec            ip->nlink++ / ip->nlink--
Ev(step, path) == <<step, path>>

\* create(path, T_FILE, 0, 0): [ok, fs, ev].  An existing file is returned as
\* it is, locked (its content is kept); any other existing inode makes it
\* return 0; a missing one is made empty and returned locked.
create(fs, path) ==
    IF ~HasParent(path)
    THEN [ok |-> FALSE, fs |-> fs, ev |-> <<>>]
    ELSE IF fs[path].type # "none"
    THEN LET found == <<Ev("iget", Root), Ev("ilock", Root), Ev("iget", path),
                        Ev("iunlockput", Root), Ev("ilock", path)>>
         IN  IF fs[path].type = "file"
             THEN [ok |-> TRUE, fs |-> fs, ev |-> found]
             ELSE [ok |-> FALSE, fs |-> fs, ev |-> Append(found, Ev("iunlockput", path))]
    ELSE [ok |-> TRUE,
          fs |-> [fs EXCEPT ![path] = [type |-> "file", data |-> <<>>]],
          ev |-> <<Ev("iget", Root), Ev("ilock", Root), Ev("ialloc", path),
                   Ev("ilock", path), Ev("dirlink", path), Ev("iunlockput", Root)>>]

AllocFailExit_noend(path) == <<Ev("iunlockput", path)>>

\* The exit taken when filealloc or fdalloc fails (after if (f) fileclose(f)).
AllocFailExit(path) == <<Ev("iunlockput", path), Ev("end_op", path)>>

\* the_opener(path, omode): [fd, of, ft, fs, ev] after the call.
the_opener(of, ft, fs, path, omode, full) ==
    LET creat == Bit(omode, O_CREATE)
        c == create(fs, path)
        fs1 == IF creat THEN c.fs ELSE fs
        got == IF creat THEN c.ev ELSE <<Ev("iget", path), Ev("ilock", path)>>
        h == filealloc(ft, full)
        fd == fdalloc(of)
        begin == <<Ev("begin_op", path)>>
    IN  IF creat /\ ~c.ok
        THEN [fd |-> -1, of |-> of, ft |-> ft, fs |-> fs,
              ev |-> begin \o c.ev \o <<Ev("end_op", path)>>]
        ELSE IF ~creat /\ fs[path].type = "none"
        THEN [fd |-> -1, of |-> of, ft |-> ft, fs |-> fs,
              ev |-> begin \o <<Ev("end_op", path)>>]
        ELSE IF ~creat /\ fs[path].type = "dir" /\ omode # O_RDONLY
        THEN [fd |-> -1, of |-> of, ft |-> ft, fs |-> fs,
              ev |-> begin \o got \o <<Ev("iunlockput", path), Ev("end_op", path)>>]
        ELSE IF h = 0 \/ fd < 0
        THEN [fd |-> -1, of |-> of, ft |-> ft, fs |-> fs1,
              ev |-> begin \o got \o AllocFailExit(path)]
        ELSE [fd |-> fd,
              of |-> [of EXCEPT ![fd] = h],
              ft |-> ft @@ (h :> [name |-> path, off |-> 0,
                                  readable |-> ~Bit(omode, O_WRONLY),
                                  writable |-> Bit(omode, O_WRONLY) \/ Bit(omode, O_RDWR),
                                  ref |-> 1]),
              fs |-> fs1,
              ev |-> begin \o got \o <<Ev("iunlock", path), Ev("end_op", path),
                                       Ev("keep", path)>>]

\* The file-system layer under the calls:
\*   log     outstanding log transactions (begin_op without its end_op)
\*   locked  inodes whose sleep lock is held
\*   held    inode references the running call holds itself
\*   dir     path -> inode number (0: no such name)
\*   nlink   inode number -> link count (0: the inode is free)
Inums == 1..Cardinality(Paths)
ROOTINO == 1

\* The inodes of the names that exist are numbered after the root, in the
\* order of PathOrder.
PathOrder == <<"pages", "flag", "context", "trapframe", "proc">>
PathIndex(a) == CHOOSE k \in 1..Len(PathOrder) : PathOrder[k] = a

FsLayer(fs) ==
    LET names == {a \in DOMAIN fs \cap Artifacts : fs[a].type # "none"}
        num(a) == ROOTINO + Cardinality({b \in names : PathIndex(b) <= PathIndex(a)})
        d == [a \in Paths |-> IF a = Root THEN ROOTINO
                              ELSE IF a \in names THEN num(a) ELSE 0]
    IN  [log |-> 0, locked |-> {}, held |-> 0, dir |-> d,
         nlink |-> [i \in Inums |-> IF \E a \in Paths : d[a] = i THEN 1 ELSE 0]]

\* ialloc: the lowest free inode.
ialloc(st) == Min({i \in Inums : st.nlink[i] = 0})

\* One step of a call on the layer.  A link step names <<new, old>>.
Step(st, e) ==
    LET op == e[1]
        n == e[2]
    IN  CASE op = "begin_op"   -> [st EXCEPT !.log = @ + 1]
          [] op = "end_op"     -> [st EXCEPT !.log = @ - 1]
          [] op = "iget"       -> [st EXCEPT !.held = @ + 1]
          [] op = "ilock"      -> [st EXCEPT !.locked = @ \cup {st.dir[n]}]
          [] op = "iunlock"    -> [st EXCEPT !.locked = @ \ {st.dir[n]}]
          [] op = "iunlockput" -> [st EXCEPT !.locked = @ \ {st.dir[n]}, !.held = @ - 1]
          [] op = "iput"       -> [st EXCEPT !.held = @ - 1]
          [] op = "keep"       -> [st EXCEPT !.held = @ - 1]
          [] op = "ialloc"     -> [st EXCEPT !.dir[n] = ialloc(st), !.nlink[ialloc(st)] = 1,
                                             !.held = @ + 1]
          [] op = "dirlink"    -> st
          [] op = "link"       -> [st EXCEPT !.dir[n[1]] = st.dir[n[2]]]
          [] op = "inc"        -> [st EXCEPT !.nlink[st.dir[n]] = @ + 1]
          [] op = "dec"        -> [st EXCEPT !.nlink[st.dir[n]] = @ - 1]

RECURSIVE Run(_, _)
Run(st, ev) == IF ev = <<>> THEN st ELSE Run(Step(st, Head(ev)), Tail(ev))

\* Before any direct call.
NoCall ==
    [name |-> "none", p |-> 0, path |-> Root, omode |-> 0, old |-> Root, new |-> Root,
     argsok |-> TRUE, full |-> FALSE, ofile0 |-> EmptyOfile, ft0 |-> <<>>, fs0 |-> <<>>,
     layer0 |-> FsLayer([a \in Artifacts |-> [type |-> "none", data |-> <<>>]]),
     r |-> 0, out |-> <<>>]

\* proc->ofile[fd] as the code reads it: fd < 0 is outside the array.
OfileAt(of, fd) == IF fd < 0 THEN BadFile ELSE of[fd]

\* proc->ofile[fd] = 0 as the code writes it (fd < 0 writes outside the array).
OfileClear(of, fd) == IF fd < 0 THEN of ELSE [of EXCEPT ![fd] = 0]

ValidFile(ft, h) == h \in DOMAIN ft

\* filewrite(f, rec, n) when all n bytes are transferred: the record lands at
\* the handle's offset (over what was there, or appended) and the offset moves.
Put(s, k, v) == IF k <= Len(s) THEN [s EXCEPT ![k] = v] ELSE Append(s, v)
WriteFs(fs, ft, h, rec) == [fs EXCEPT ![ft[h].name].data = Put(@, ft[h].off + 1, rec)]
Advance(ft, h) == [ft EXCEPT ![h].off = @ + 1]

\* fileread(f, buf, n): TRUE when a whole record is available at the offset.
CanRead(fs, ft, h) == ft[h].readable /\ ft[h].off < Len(fs[ft[h].name].data)
ReadRec(fs, ft, h) == fs[ft[h].name].data[ft[h].off + 1]

\* exit(): every open descriptor is closed, the process becomes a zombie.
RECURSIVE CloseAll(_, _, _)
CloseAll(ft, of, fd) ==
    IF fd >= NOFILE THEN ft
    ELSE CloseAll(IF of[fd] # 0 /\ ValidFile(ft, of[fd]) THEN fileclose(ft, of[fd]) ELSE ft,
                  of, fd + 1)

\* ---------------------------------------------------------------- initially
Console == 1

InitProc(s, sz, flags, used) ==
    [state |-> "RUNNING", pid |-> s, sz |-> sz,
     pgdir |-> [k \in 1..NPages(sz) |-> [flags |-> flags[k], content |-> 10 * s + k]],
     ofile |-> [fd \in 0..(NOFILE - 1) |-> IF fd < used THEN Console ELSE 0]]

Unused ==
    [state |-> "UNUSED", pid |-> 0, sz |-> 0, pgdir |-> <<>>, ofile |-> EmptyOfile]

Init ==
    /\ \E sz1 \in Sizes, sz2 \in {PGSIZE}, used \in Levels :
          /\ ptable = [s \in Slots |->
                         IF s = 1 THEN InitProc(1, sz1, PageTable(sz1), used)
                         ELSE IF s = 2
                         THEN InitProc(2, sz2, PageTable(sz2), 3)
                         ELSE Unused]
          /\ ftable = (Console :> [name |-> "console", off |-> 0, readable |-> TRUE,
                                   writable |-> TRUE, ref |-> used + 3])
    /\ kstack = [s \in Slots |-> IF s <= 2 THEN [context |-> 100 + s, tf |-> 200 + s]
                                 ELSE [context |-> Junk, tf |-> Junk]]
    /\ fsys = [a \in Artifacts |-> [type |-> "none", data |-> <<>>]]
    /\ pc = [s \in Slots |-> "user"]
    /\ loc = [s \in Slots |-> NoLocals]
    /\ ret = [s \in Slots |-> <<>>]
    /\ msgs = [s \in Slots |-> {}]
    /\ nextpid = 3
    /\ faults = 0
    /\ calls = 0
    /\ panicked = FALSE
    /\ lastck = 0
    /\ gh = [s \in Slots |-> NoHistory]
    /\ fslayer = FsLayer(fsys)
    /\ fscall = NoCall

\* ------------------------------------------------------- scheduling, faults
Alive(p) == ptable[p].state = "RUNNING" /\ ~panicked
\* No process is inside a system call.
Quiet == \A q \in Slots : pc[q] \in {"user", "exited"}

\* A short write may be injected while the budget lasts.
WriteOutcomes == IF faults < MaxFaults THEN {TRUE, FALSE} ELSE {TRUE}
Spend(ok) == IF ok THEN faults ELSE faults + 1
\* So may a full file table at a the_opener call.
FullOutcomes == IF faults < MaxFaults THEN {FALSE, TRUE} ELSE {FALSE}

\* What an access through a pointer that is no struct file can do.
UBOutcomes == {"benign", "panic"}

\* exit(): the process table entry and the file table after it.
Exited(pr) == [pr EXCEPT !.state = "ZOMBIE", !.ofile = EmptyOfile]

\* ------------------------------------------------ sys_isvpcb (Checkpoint)
\* Entry: cprintf("Parent PID"), fd = the_opener("pages", O_CREATE | O_RDWR).
isvpcb_open_pages(p) ==
    /\ Alive(p) /\ pc[p] = "user" /\ calls < MaxCalls
    /\ calls' = calls + 1
    /\ \E full \in FullOutcomes :
       LET o == the_opener(ptable[p].ofile, ftable, fsys, "pages", O_CREATE + O_RDWR, full)
       IN  /\ ptable' = [ptable EXCEPT ![p].ofile = o.of]
           /\ fslayer' = Run(fslayer, o.ev)
           /\ ftable' = o.ft
           /\ fsys' = o.fs
           /\ faults' = Spend(~full)
           /\ loc' = [loc EXCEPT ![p] = [NoLocals EXCEPT !.fd = o.fd]]
           /\ gh' = [gh EXCEPT ![p] =
                       [NoHistory EXCEPT !.call = "isvpcb",
                                         !.openfail = IF o.fd < 0 THEN {"pages"} ELSE {},
                                         !.free = Cardinality(FdFree(ptable[p].ofile)),
                                         !.ofile0 = ptable[p].ofile,
                                         !.pgdir0 = ptable[p].pgdir]]
    /\ pc' = [pc EXCEPT ![p] = "sv_flag"]
    /\ msgs' = [msgs EXCEPT ![p] = {"parent_pid"}]
    /\ ret' = [ret EXCEPT ![p] = <<>>]
    /\ lastck' = 0
    /\ UNCHANGED <<kstack, nextpid, panicked>>
    /\ UNCHANGED fscall

\* fd2 = the_opener("flag", ...); only fd is tested; f = ofile[fd], f2 = ofile[fd2].
isvpcb_open_flag(p) ==
    /\ ~panicked /\ pc[p] = "sv_flag"
    /\ \E full \in FullOutcomes :
       LET o == the_opener(ptable[p].ofile, ftable, fsys, "flag", O_CREATE + O_RDWR, full)
       IN  /\ fsys' = o.fs
           /\ fslayer' = Run(fslayer, o.ev)
           /\ faults' = Spend(~full)
           /\ IF loc[p].fd < 0
              THEN /\ msgs' = [msgs EXCEPT ![p] = @ \cup {"err_create_uvm"}]
                   /\ ptable' = [ptable EXCEPT ![p] = Exited(@)]
                   /\ ftable' = CloseAll(o.ft, o.of, 0)
                   /\ loc' = [loc EXCEPT ![p] = NoLocals]
                   /\ pc' = [pc EXCEPT ![p] = "exited"]
                   /\ gh' = [gh EXCEPT ![p].openfail = IF o.fd < 0 THEN @ \cup {"flag"} ELSE @]
              ELSE /\ msgs' = [msgs EXCEPT ![p] = @ \cup {"created_uvm"}]
                   /\ ptable' = [ptable EXCEPT ![p].ofile = o.of]
                   /\ ftable' = o.ft
                   /\ loc' = [loc EXCEPT ![p].fd2 = o.fd,
                                         ![p].f = OfileAt(o.of, loc[p].fd),
                                         ![p].f2 = OfileAt(o.of, o.fd)]
                   /\ pc' = [pc EXCEPT ![p] = "sv_loop"]
                   /\ gh' = [gh EXCEPT ![p].oob = IF o.fd < 0 THEN @ \cup {"r"} ELSE @,
                                       ![p].openfail = IF o.fd < 0 THEN @ \cup {"flag"} ELSE @]
    /\ UNCHANGED <<kstack, ret, nextpid, calls, panicked, lastck>>
    /\ UNCHANGED fscall

\* One iteration of the sweep: walk the page table, write the block, write the
\* flag word (its result is dropped), then test the block's byte count.
isvpcb_page(p) ==
    /\ ~panicked /\ pc[p] = "sv_loop" /\ loc[p].i < ptable[p].sz
    /\ LET k == (loc[p].i \div PGSIZE) + 1
           l == loc[p]
       IN  IF k > Len(ptable[p].pgdir) \/ ~Bit(ptable[p].pgdir[k].flags, PTE_P)
           THEN /\ panicked' = TRUE
                /\ UNCHANGED <<ptable, kstack, ftable, fsys, pc, loc, ret, msgs,
                               nextpid, faults, calls, lastck, gh>>
           ELSE \E ok1 \in WriteOutcomes, ok2 \in BOOLEAN, ub \in UBOutcomes :
                LET pte == ptable[p].pgdir[k]
                    w1 == ok1 /\ ftable[l.f].writable
                    fs1 == IF w1 THEN WriteFs(fsys, ftable, l.f, pte.content) ELSE fsys
                    ft1 == IF w1 THEN Advance(ftable, l.f) ELSE ftable
                    bad2 == ~ValidFile(ft1, l.f2)
                    w2 == ~bad2 /\ ok2 /\ ft1[l.f2].writable
                    fs2 == IF w2 THEN WriteFs(fs1, ft1, l.f2, pte.flags) ELSE fs1
                    ft2 == IF w2 THEN Advance(ft1, l.f2) ELSE ft1
                    ws == [gh[p].wrote EXCEPT !["pages"] = IF w1 THEN @ + 1 ELSE @,
                                              !["flag"] = IF w2 THEN @ + 1 ELSE @]
               IN  \* filewrite(f2, ...) through a pointer that is no struct file
                   \* is undefined; through a struct file it may fall short.
                   /\ IF bad2 THEN ok2 ELSE ub = "benign"
                   /\ ok2 \/ Spend(ok1) < MaxFaults
                   /\ faults' = Spend(ok1) + (IF ok2 THEN 0 ELSE 1)
                   /\ fsys' = fs2
                   /\ gh' = [gh EXCEPT ![p].wrote = ws,
                                       ![p].short = @ \/ ~w1 \/ (~bad2 /\ ~w2),
                                       ![p].late = @ \/ gh[p].short \/ (~w1 /\ ~bad2)]
                   /\ panicked' = (ub = "panic")
                   /\ IF ub = "panic"
                      THEN /\ ftable' = ft2
                           /\ UNCHANGED <<ptable, loc, pc, msgs>>
                      ELSE IF ~w1
                      THEN /\ msgs' = [msgs EXCEPT ![p] = @ \cup {"err_write_uvm"}]
                           /\ ptable' = [ptable EXCEPT ![p] = Exited(@)]
                           /\ ftable' = CloseAll(ft2, ptable[p].ofile, 0)
                           /\ loc' = [loc EXCEPT ![p] = NoLocals]
                           /\ pc' = [pc EXCEPT ![p] = "exited"]
                      ELSE /\ msgs' = [msgs EXCEPT ![p] = @ \cup {"written_page"}]
                           /\ ptable' = ptable
                           /\ ftable' = ft2
                           /\ loc' = [loc EXCEPT ![p].file_size = PGSIZE,
                                                 ![p].i = @ + PGSIZE]
                           /\ pc' = pc
                   /\ UNCHANGED <<kstack, ret, nextpid, calls, lastck>>
    /\ UNCHANGED <<fslayer, fscall>>

\* Only the slot of the pages file is cleared.
ClearUvmSlots_one(of, l) == OfileClear(of, l.fd)

\* proc->ofile[fd] = 0; proc->ofile[fd2] = 0;
ClearUvmSlots(of, l) == OfileClear(OfileClear(of, l.fd), l.fd2)
\* The sweep's handles are never closed.
CloseUvmFiles_leak(ft, l) == ft

\* fileclose(f); fileclose(f2);  (f2 may be no struct file)
CloseUvmFiles(ft, l) ==
    IF ValidFile(ft, l.f2) THEN fileclose(fileclose(ft, l.f), l.f2)
    ELSE fileclose(ft, l.f)

\* After the sweep: both descriptor slots are cleared and both files closed.
isvpcb_close_uvm(p) ==
    /\ ~panicked /\ pc[p] = "sv_loop" /\ loc[p].i >= ptable[p].sz
    /\ \E ub \in UBOutcomes :
       LET l == loc[p]
           bad2 == ~ValidFile(ftable, l.f2)
       IN  /\ bad2 \/ ub = "benign"
           /\ ptable' = [ptable EXCEPT ![p].ofile = ClearUvmSlots(@, l)]
           /\ gh' = [gh EXCEPT ![p].oob = IF l.fd2 < 0 THEN @ \cup {"w"} ELSE @]
           /\ ftable' = CloseUvmFiles(ftable, l)
           /\ panicked' = (ub = "panic")
           /\ pc' = [pc EXCEPT ![p] = IF ub = "panic" THEN @ ELSE "sv_open"]
           /\ loc' = [loc EXCEPT ![p].stage = 1]
    /\ UNCHANGED <<kstack, fsys, ret, msgs, nextpid, faults, calls, lastck>>
    /\ UNCHANGED <<fslayer, fscall>>

\* What the stage writes: *proc->context, *proc->tf, *proc.
ProcRecord(p) ==
    [pid |-> ptable[p].pid, sz |-> ptable[p].sz, context |-> p, tf |-> p,
     ofile |-> ptable[p].ofile]
RecordOf(p, name) ==
    IF name = "context" THEN kstack[p].context
    ELSE IF name = "trapframe" THEN kstack[p].tf
    ELSE ProcRecord(p)

\* fd = the_opener(name, O_CREATE | O_RDWR); on failure print and exit.
isvpcb_open_rec(p) ==
    /\ ~panicked /\ pc[p] = "sv_open"
    /\ \E full \in FullOutcomes :
       LET name == Records[loc[p].stage]
           o == the_opener(ptable[p].ofile, ftable, fsys, name, O_CREATE + O_RDWR, full)
       IN  /\ fsys' = o.fs
           /\ fslayer' = Run(fslayer, o.ev)
           /\ faults' = Spend(~full)
           /\ gh' = [gh EXCEPT ![p].openfail = IF o.fd < 0 THEN @ \cup {name} ELSE @]
           /\ IF o.fd < 0
              THEN /\ msgs' = [msgs EXCEPT ![p] = @ \cup {"err_create_" \o name}]
                   /\ ptable' = [ptable EXCEPT ![p] = Exited(@)]
                   /\ ftable' = CloseAll(o.ft, o.of, 0)
                   /\ loc' = [loc EXCEPT ![p] = NoLocals]
                   /\ pc' = [pc EXCEPT ![p] = "exited"]
              ELSE /\ msgs' = [msgs EXCEPT ![p] = @ \cup {"created_" \o name}]
                   /\ ptable' = [ptable EXCEPT ![p].ofile = o.of]
                   /\ ftable' = o.ft
                   /\ loc' = [loc EXCEPT ![p].fd = o.fd, ![p].f = o.of[o.fd]]
                   /\ pc' = [pc EXCEPT ![p] = "sv_write"]
    /\ UNCHANGED <<kstack, ret, nextpid, calls, panicked, lastck>>
    /\ UNCHANGED fscall

\* Where the call goes after a record is written and its file closed.
AfterRecord(stage) == IF stage < Len(Records) THEN "sv_open" ELSE "sv_done"

\* filewrite of the record, the byte-count test, then clear the slot and close.
isvpcb_write_rec(p) ==
    /\ ~panicked /\ pc[p] = "sv_write"
    /\ \E ok \in WriteOutcomes :
       LET l == loc[p]
           name == Records[l.stage]
           w == ok /\ ftable[l.f].writable
       IN  /\ faults' = Spend(ok)
           /\ IF ~w
              THEN /\ msgs' = [msgs EXCEPT ![p] = @ \cup {"err_write_" \o name}]
                   /\ ptable' = [ptable EXCEPT ![p] = Exited(@)]
                   /\ ftable' = CloseAll(ftable, ptable[p].ofile, 0)
                   /\ fsys' = fsys
                   /\ gh' = [gh EXCEPT ![p].short = TRUE, ![p].late = @ \/ gh[p].short]
                   /\ loc' = [loc EXCEPT ![p] = NoLocals]
                   /\ pc' = [pc EXCEPT ![p] = "exited"]
              ELSE /\ msgs' = [msgs EXCEPT ![p] = @ \cup {"written_" \o name}]
                   /\ fsys' = WriteFs(fsys, ftable, l.f, RecordOf(p, name))
                   /\ gh' = [gh EXCEPT ![p].wrote[name] = @ + 1,
                                       ![p].late = @ \/ gh[p].short]
                   /\ ptable' = [ptable EXCEPT ![p].ofile = OfileClear(@, l.fd)]
                   /\ ftable' = fileclose(Advance(ftable, l.f), l.f)
                   /\ loc' = [loc EXCEPT ![p].file_size = 1,
                                         ![p].stage = IF @ < Len(Records) THEN @ + 1 ELSE @]
                   /\ pc' = [pc EXCEPT ![p] = AfterRecord(l.stage)]
    /\ UNCHANGED <<kstack, ret, nextpid, calls, panicked, lastck>>
    /\ UNCHANGED <<fslayer, fscall>>

\* cprintf("*Write is done.*"); kill(proc->pid); exit();
isvpcb_finish(p) ==
    /\ ~panicked /\ pc[p] = "sv_done"
    /\ msgs' = [msgs EXCEPT ![p] = @ \cup {"write_done"}]
    /\ ptable' = [ptable EXCEPT ![p] = Exited(@)]
    /\ ftable' = CloseAll(ftable, ptable[p].ofile, 0)
    /\ pc' = [pc EXCEPT ![p] = "exited"]
    /\ loc' = [loc EXCEPT ![p] = NoLocals]
    /\ lastck' = p
    /\ UNCHANGED <<kstack, fsys, ret, nextpid, faults, calls, panicked, gh>>
    /\ UNCHANGED <<fslayer, fscall>>

\* --------------------------------------------------- sys_ildpcb (Restore)
OpenOrder == <<"pages", "context", "trapframe", "proc", "flag">>

\* The five the_opener(name, O_RDONLY) calls in the order of the code; none of
\* the results is tested.  st = [of, ft, fs, fds]; the file table is full at
\* the call numbered fullAt (0: at none).
\* The five opens made with the mode Checkpoint uses, O_CREATE | O_RDWR.
RECURSIVE OpenAll_create(_, _, _)
OpenAll_create(st, k, fullAt) ==
    IF k > Len(OpenOrder) THEN st
    ELSE LET o == the_opener(st.of, st.ft, st.fs, OpenOrder[k], O_CREATE + O_RDWR, k = fullAt)
         IN  OpenAll_create([of |-> o.of, ft |-> o.ft, fs |-> o.fs,
                             fds |-> [st.fds EXCEPT ![OpenOrder[k]] = o.fd],
                             ev |-> st.ev \o o.ev], k + 1, fullAt)

RECURSIVE OpenAll(_, _, _)
OpenAll(st, k, fullAt) ==
    IF k > Len(OpenOrder) THEN st
    ELSE LET o == the_opener(st.of, st.ft, st.fs, OpenOrder[k], O_RDONLY, k = fullAt)
         IN  OpenAll([of |-> o.of, ft |-> o.ft, fs |-> o.fs,
                      fds |-> [st.fds EXCEPT ![OpenOrder[k]] = o.fd],
                      ev |-> st.ev \o o.ev], k + 1, fullAt)

\* Entry: the five opens, then pages_f = proc->ofile[pages_fd] and so on.
ildpcb_open(p) ==
    /\ Alive(p) /\ pc[p] = "user" /\ calls < MaxCalls
    /\ calls' = calls + 1
    /\ \E fullAt \in 0..Len(OpenOrder) :
       LET st == OpenAll([of |-> ptable[p].ofile, ft |-> ftable, fs |-> fsys,
                          fds |-> [a \in Artifacts |-> 0], ev |-> <<>>], 1, fullAt)
       IN  /\ fullAt = 0 \/ faults < MaxFaults
           /\ fslayer' = Run(fslayer, st.ev)
           /\ faults' = Spend(fullAt = 0)
           /\ ptable' = [ptable EXCEPT ![p].ofile = st.of]
           /\ ftable' = st.ft
           /\ fsys' = st.fs
           /\ loc' = [loc EXCEPT ![p] =
                        [NoLocals EXCEPT !.fds = st.fds,
                                         !.fls = [a \in Artifacts |-> OfileAt(st.of, st.fds[a])]]]
           /\ gh' = [gh EXCEPT ![p] =
                       [NoHistory EXCEPT !.call = "ildpcb",
                                         !.openfail = {a \in Artifacts : st.fds[a] < 0},
                                         !.oob = IF \E a \in Artifacts : st.fds[a] < 0
                                                 THEN {"r"} ELSE {},
                                         !.src = lastck,
                                         !.free = Cardinality(FdFree(ptable[p].ofile)),
                                         !.ofile0 = ptable[p].ofile,
                                         !.pgdir0 = ptable[p].pgdir]]
    /\ pc' = [pc EXCEPT ![p] = "ld_read"]
    /\ msgs' = [msgs EXCEPT ![p] = {}]
    /\ ret' = [ret EXCEPT ![p] = <<>>]
    /\ UNCHANGED <<kstack, nextpid, panicked, lastck>>
    /\ UNCHANGED fscall

\* The sz field of a loaded_proc that no read filled: what the stack held,
\* here nothing or one page.
StackSizes == {0, PGSIZE}

\* fileread of one record into a local buffer; the byte count is dropped.
\* [got, val, ft]: a buffer that was not filled keeps what the stack held.
ReadInto(ft, fs, h, old) ==
    IF ValidFile(ft, h) /\ CanRead(fs, ft, h)
    THEN [got |-> TRUE, val |-> ReadRec(fs, ft, h), ft |-> Advance(ft, h)]
    ELSE [got |-> FALSE, val |-> old, ft |-> ft]

\* The three filereads, then cprintf("Read was successful").
ildpcb_read(p) ==
    /\ ~panicked /\ pc[p] = "ld_read"
    /\ \E ub \in UBOutcomes, gsz \in StackSizes :
       LET l == loc[p]
           recs == {"context", "trapframe", "proc"}
           bad == \E a \in recs : ~ValidFile(ftable, l.fls[a])
           garbage == [pid |-> Junk, sz |-> gsz, context |-> WildPtr, tf |-> WildPtr,
                       ofile |-> EmptyOfile]
           r1 == ReadInto(ftable, fsys, l.fls["context"], Junk)
           r2 == ReadInto(r1.ft, fsys, l.fls["trapframe"], Junk)
           r3 == ReadInto(r2.ft, fsys, l.fls["proc"], garbage)
       IN  /\ bad \/ ub = "benign"
           /\ r3.got => gsz = 0
           /\ panicked' = (ub = "panic")
           /\ ftable' = r3.ft
           /\ loc' = [loc EXCEPT ![p].loaded_context = r1.val,
                                 ![p].loaded_tf = r2.val,
                                 ![p].loaded_proc = r3.val]
           /\ gh' = [gh EXCEPT ![p].gotproc = r3.got,
                               ![p].shortread =
                                   \/ (ValidFile(ftable, l.fls["context"]) /\ ~r1.got)
                                   \/ (ValidFile(ftable, l.fls["trapframe"]) /\ ~r2.got)
                                   \/ (ValidFile(ftable, l.fls["proc"]) /\ ~r3.got)]
           /\ msgs' = [msgs EXCEPT ![p] = IF ub = "panic" THEN @ ELSE @ \cup {"read_ok"}]
           /\ pc' = [pc EXCEPT ![p] = IF ub = "panic" THEN @ ELSE "ld_install"]
    /\ UNCHANGED <<ptable, kstack, fsys, ret, nextpid, faults, calls, lastck>>
    /\ UNCHANGED <<fslayer, fscall>>

\* *p = v for a pointer p loaded from the proc artifact: the kernel stacks
\* after the store (a pointer to no kernel stack changes none of them).
StoreContext(ks, ptr, v) == IF ptr \in Slots THEN [ks EXCEPT ![ptr].context = v] ELSE ks
StoreTf(ks, ptr, v) == IF ptr \in Slots THEN [ks EXCEPT ![ptr].tf = v] ELSE ks

\* *loaded_proc.context = loaded_context;  *loaded_proc.tf = loaded_tf;
ildpcb_install(p) ==
    /\ ~panicked /\ pc[p] = "ld_install"
    /\ \E ub \in UBOutcomes :
       LET l == loc[p]
           cp == l.loaded_proc.context
           tp == l.loaded_proc.tf
           wild == cp \notin Slots \/ tp \notin Slots
       IN  /\ wild \/ ub = "benign"
           /\ kstack' = StoreTf(StoreContext(kstack, cp, l.loaded_context), tp, l.loaded_tf)
           /\ panicked' = (ub = "panic")
           /\ pc' = [pc EXCEPT ![p] = IF ub = "panic" THEN @ ELSE "ld_load"]
    /\ gh' = [gh EXCEPT ![p].deref = {"context", "tf"}]
    /\ UNCHANGED <<ptable, ftable, fsys, loc, ret, msgs, nextpid, faults, calls, lastck>>
    /\ UNCHANGED <<fslayer, fscall>>

\* allocproc: the first UNUSED slot of the process table, 0 when there is none.
FreeSlots(pt) == {s \in Slots : pt[s].state = "UNUSED"}
allocproc(pt) == IF FreeSlots(pt) = {} THEN 0 ELSE Min(FreeSlots(pt))

\* The loader's consistency test: recorded size = flag entries x page size.
SizeConsistent(fs, lp) == lp.sz = Len(fs["flag"].data) * PGSIZE

\* load_the_proc(&loaded_proc, pages_f, flag_f), the loader of the design:
\* reject unless the recorded size equals (flag entries) x page size, allocate
\* a process, copy the buffered context and trap frame into its own kernel
\* stack, read one block and one flag word per page and map them, make the
\* process runnable and return its pid; -1 and nothing changed otherwise.
\* [pid, slot, pt, ks, ft]
load_the_proc(pt, ks, ft, fs, l) ==
    LET lp == l.loaded_proc
        pf == l.fls["pages"]
        ff == l.fls["flag"]
        fail == [pid |-> -1, slot |-> 0, pt |-> pt, ks |-> ks, ft |-> ft]
        np == allocproc(pt)
        n == lp.sz \div PGSIZE
    IN  IF ~ValidFile(ft, pf) \/ ~ValidFile(ft, ff) THEN fail
        ELSE IF ~SizeConsistent(fs, lp) THEN fail
        ELSE IF np = 0 THEN fail
        ELSE IF Len(fs["pages"].data) < n THEN fail
        ELSE [pid |-> nextpid,
              slot |-> np,
              pt |-> [pt EXCEPT ![np] =
                        [state |-> "RUNNING", pid |-> nextpid, sz |-> lp.sz,
                         pgdir |-> [k \in 1..n |-> [flags |-> fs["flag"].data[k],
                                                    content |-> fs["pages"].data[k]]],
                         ofile |-> EmptyOfile]],
              ks |-> [ks EXCEPT ![np] = [context |-> l.loaded_context,
                                         tf |-> l.loaded_tf]],
              ft |-> [ft EXCEPT ![pf].off = @ + n, ![ff].off = @ + n]]

\* pid = load_the_proc(&loaded_proc, pages_f, flag_f);
ildpcb_load(p) ==
    /\ ~panicked /\ pc[p] = "ld_load"
    /\ LET r == load_the_proc(ptable, kstack, ftable, fsys, loc[p])
       IN  /\ ptable' = r.pt
           /\ kstack' = r.ks
           /\ ftable' = r.ft
           /\ nextpid' = IF r.pid > 0 THEN nextpid + 1 ELSE nextpid
           /\ loc' = [loc EXCEPT ![p].pid = r.pid]
           /\ gh' = [gh EXCEPT ![p].newslot = r.slot,
                               ![p].result = r.pid,
                               ![p].mismatch = loc[p].loaded_proc.sz #
                                                   Len(fsys["flag"].data) * PGSIZE]
    /\ pc' = [pc EXCEPT ![p] = "ld_close"]
    /\ UNCHANGED <<fsys, ret, msgs, faults, calls, panicked, lastck>>
    /\ UNCHANGED <<fslayer, fscall>>

\* The proc file is forgotten.
CloseOrder_noproc == <<"pages", "context", "trapframe", "flag">>

CloseOrder == <<"pages", "context", "trapframe", "flag", "proc">>

\* proc->ofile[x_fd] = 0 for each of the five descriptors.
RECURSIVE ClearEach(_, _, _)
ClearEach(of, fds, order) ==
    IF order = <<>> THEN of
    ELSE ClearEach(OfileClear(of, fds[Head(order)]), fds, Tail(order))

\* fileclose of each of the five pointers (one that is no struct file is skipped).
RECURSIVE CloseEach(_, _, _)
CloseEach(ft, fls, order) ==
    IF order = <<>> THEN ft
    ELSE CloseEach(IF ValidFile(ft, fls[Head(order)]) THEN fileclose(ft, fls[Head(order)])
                   ELSE ft,
                   fls, Tail(order))

\* return 0;  whatever the loader said.
ReturnValue_zero(pid) == 0

\* return pid;
ReturnValue(pid) == pid

\* The five slots are cleared, the five files closed, pid is returned.
ildpcb_close(p) ==
    /\ ~panicked /\ pc[p] = "ld_close"
    /\ \E ub \in UBOutcomes :
       LET l == loc[p]
           bad == \E a \in Artifacts : ~ValidFile(ftable, l.fls[a])
       IN  /\ bad \/ ub = "benign"
           /\ ptable' = [ptable EXCEPT ![p].ofile = ClearEach(@, l.fds, CloseOrder)]
           /\ gh' = [gh EXCEPT ![p].oob = IF \E a \in Artifacts : l.fds[a] < 0
                                          THEN @ \cup {"w"} ELSE @]
           /\ ftable' = CloseEach(ftable, l.fls, CloseOrder)
           /\ panicked' = (ub = "panic")
           /\ pc' = [pc EXCEPT ![p] = IF ub = "panic" THEN @ ELSE "user"]
           /\ ret' = [ret EXCEPT ![p] = IF ub = "panic" THEN @ ELSE <<ReturnValue(l.pid)>>]
           /\ loc' = [loc EXCEPT ![p] = IF ub = "panic" THEN @ ELSE NoLocals]
    /\ UNCHANGED <<kstack, fsys, msgs, nextpid, faults, calls, lastck>>
    /\ UNCHANGED <<fslayer, fscall>>

\* ------------------------------------------------------------ specification
\* System calls run one at a time: a call is entered only when no other is
\* in progress.
Checkpoint_enter(p) == Quiet /\ isvpcb_open_pages(p)
Restore_enter(p) == Quiet /\ ildpcb_open(p)

Next ==
    \E p \in Slots :
        \/ Checkpoint_enter(p)
        \/ isvpcb_open_flag(p)
        \/ isvpcb_page(p)
        \/ isvpcb_close_uvm(p)
        \/ isvpcb_open_rec(p)
        \/ isvpcb_write_rec(p)
        \/ isvpcb_finish(p)
        \/ Restore_enter(p)
        \/ ildpcb_read(p)
        \/ ildpcb_install(p)
        \/ ildpcb_load(p)
        \/ ildpcb_close(p)

Spec == Init /\ [][Next]_vars

\* ------------------------------------------------- the sweep over a bad page
\* A page table with a bad page at index hole: the entry is there without the
\* present bit ("notpresent"), or the table has no entry from there on
\* ("absent": ns_walkpgdir returns 0).
HolePageTable(sz, hole, kind) ==
    IF kind = "absent"
    THEN [k \in 1..(hole - 1) |-> PageTable(sz)[k]]
    ELSE [k \in 1..NPages(sz) |-> IF k = hole THEN PTE_W + PTE_U ELSE PageTable(sz)[k]]

\* Process 1 has a bad page below its size; process 2 is a sound one-page process.
SweepInit ==
    /\ \E sz1 \in Sizes, used \in Levels :
       \E hole \in 1..NPages(sz1), kind \in {"absent", "notpresent"} :
          /\ ptable = [s \in Slots |->
                         IF s = 1
                         THEN [InitProc(1, sz1, PageTable(sz1), used) EXCEPT
                                  !.pgdir = [k \in DOMAIN HolePageTable(sz1, hole, kind) |->
                                               [flags |-> HolePageTable(sz1, hole, kind)[k],
                                                content |-> 10 + k]]]
                         ELSE IF s = 2
                         THEN InitProc(2, PGSIZE, PageTable(PGSIZE), 3)
                         ELSE Unused]
          /\ ftable = (Console :> [name |-> "console", off |-> 0, readable |-> TRUE,
                                   writable |-> TRUE, ref |-> used + 3])
    /\ kstack = [s \in Slots |-> IF s <= 2 THEN [context |-> 100 + s, tf |-> 200 + s]
                                 ELSE [context |-> Junk, tf |-> Junk]]
    /\ fsys = [a \in Artifacts |-> [type |-> "none", data |-> <<>>]]
    /\ pc = [s \in Slots |-> "user"]
    /\ loc = [s \in Slots |-> NoLocals]
    /\ ret = [s \in Slots |-> <<>>]
    /\ msgs = [s \in Slots |-> {}]
    /\ nextpid = 3
    /\ faults = 0
    /\ calls = 0
    /\ panicked = FALSE
    /\ lastck = 0
    /\ gh = [s \in Slots |-> NoHistory]
    /\ fslayer = FsLayer(fsys)
    /\ fscall = NoCall

\* Only Checkpoint is called.
SweepNext ==
    \E p \in Slots :
        \/ Checkpoint_enter(p)
        \/ isvpcb_open_flag(p)
        \/ isvpcb_page(p)
        \/ isvpcb_close_uvm(p)
        \/ isvpcb_open_rec(p)
        \/ isvpcb_write_rec(p)
        \/ isvpcb_finish(p)

SpecSweep == SweepInit /\ [][SweepNext]_vars

\* --------------------------------------------------- calls that interleave
\* A process in a system call sleeps at its file I/O (begin_op, ilock, the disk)
\* and another CPU runs another process: a call may be entered, and any call
\* may take its next step, while other calls are in progress.
ConcNext ==
    \E p \in Slots :
        \/ isvpcb_open_pages(p)
        \/ isvpcb_open_flag(p)
        \/ isvpcb_page(p)
        \/ isvpcb_close_uvm(p)
        \/ isvpcb_open_rec(p)
        \/ isvpcb_write_rec(p)
        \/ isvpcb_finish(p)
        \/ ildpcb_open(p)
        \/ ildpcb_read(p)
        \/ ildpcb_install(p)
        \/ ildpcb_load(p)
        \/ ildpcb_close(p)

SpecConc == Init /\ [][ConcNext]_vars

\* ------------------------------------------- the file calls under the core
\* sys_open(path, omode): the body of the_opener behind the argument checks.
sys_open(of, ft, fs, argsok, path, omode, full) ==
    LET creat == Bit(omode, O_CREATE)
        c == create(fs, path)
        fs1 == IF creat THEN c.fs ELSE fs
        got == IF creat THEN c.ev ELSE <<Ev("iget", path), Ev("ilock", path)>>
        h == filealloc(ft, full)
        fd == fdalloc(of)
        begin == <<Ev("begin_op", path)>>
    IN  IF ~argsok
        THEN [fd |-> -1, of |-> of, ft |-> ft, fs |-> fs, ev |-> <<>>]
        ELSE IF creat /\ ~c.ok
        THEN [fd |-> -1, of |-> of, ft |-> ft, fs |-> fs,
              ev |-> begin \o c.ev \o <<Ev("end_op", path)>>]
        ELSE IF ~creat /\ fs[path].type = "none"
        THEN [fd |-> -1, of |-> of, ft |-> ft, fs |-> fs,
              ev |-> begin \o <<Ev("end_op", path)>>]
        ELSE IF ~creat /\ fs[path].type = "dir" /\ omode # O_RDONLY
        THEN [fd |-> -1, of |-> of, ft |-> ft, fs |-> fs,
              ev |-> begin \o got \o <<Ev("iunlockput", path), Ev("end_op", path)>>]
        ELSE IF h = 0 \/ fd < 0
        THEN [fd |-> -1, of |-> of, ft |-> ft, fs |-> fs1,
              ev |-> begin \o got \o <<Ev("iunlockput", path), Ev("end_op", path)>>]
        ELSE [fd |-> fd,
              of |-> [of EXCEPT ![fd] = h],
              ft |-> ft @@ (h :> [name |-> path, off |-> 0,
                                  readable |-> ~Bit(omode, O_WRONLY),
                                  writable |-> Bit(omode, O_WRONLY) \/ Bit(omode, O_RDWR),
                                  ref |-> 1]),
              fs |-> fs1,
              ev |-> begin \o got \o <<Ev("iunlock", path), Ev("end_op", path),
                                       Ev("keep", path)>>]

\* The device of the inode a path names: the one disk of the system.
ROOTDEV == 1
DevOf(path) == ROOTDEV

\* dirlink(dp, name, inum) < 0: the name is already in the directory.
DirlinkFails(fs, new) == fs[new].type # "none"

LinkBad_nodec(old) ==
    <<Ev("ilock", old), Ev("iunlockput", old), Ev("end_op", old)>>

\* bad: ilock(ip); ip->nlink--; iupdate(ip); iunlockput(ip); end_op();
LinkBad(old) ==
    <<Ev("ilock", old), Ev("dec", old), Ev("iunlockput", old), Ev("end_op", old)>>

\* sys_link(old, new): [r, fs, ev].
sys_link(fs, argsok, old, new) ==
    LET begin == <<Ev("begin_op", old)>>
        up == begin \o <<Ev("iget", old), Ev("ilock", old), Ev("inc", old), Ev("iunlock", old)>>
        parent == <<Ev("iget", Root), Ev("ilock", Root)>>
    IN  IF ~argsok
        THEN [r |-> -1, fs |-> fs, ev |-> <<>>]
        ELSE IF fs[old].type = "none"
        THEN [r |-> -1, fs |-> fs, ev |-> begin \o <<Ev("end_op", old)>>]
        ELSE IF fs[old].type = "dir"
        THEN [r |-> -1, fs |-> fs,
              ev |-> begin \o <<Ev("iget", old), Ev("ilock", old), Ev("iunlockput", old),
                                Ev("end_op", old)>>]
        ELSE IF ~HasParent(new)
        THEN [r |-> -1, fs |-> fs, ev |-> up \o LinkBad(old)]
        ELSE IF DevOf(Root) # DevOf(old) \/ DirlinkFails(fs, new)
        THEN [r |-> -1, fs |-> fs,
              ev |-> up \o parent \o <<Ev("iunlockput", Root)>> \o LinkBad(old)]
        ELSE [r |-> 0, fs |-> [fs EXCEPT ![new] = fs[old]],
              ev |-> up \o parent \o <<Ev("link", <<new, old>>), Ev("iunlockput", Root),
                                       Ev("iput", old), Ev("end_op", old)>>]

\* pipealloc(&rf, &wf): two struct files on one pipe, or -1 with nothing kept.
pipealloc(ft, full) ==
    LET rf == filealloc(ft, full)
        ft1 == IF rf = 0 THEN ft
               ELSE ft @@ (rf :> [name |-> "pipe", off |-> 0, readable |-> TRUE,
                                  writable |-> FALSE, ref |-> 1])
        wf == IF rf = 0 THEN 0 ELSE filealloc(ft1, full)
    IN  IF rf = 0 \/ wf = 0
        THEN [ok |-> FALSE, rf |-> 0, wf |-> 0, ft |-> ft]
        ELSE [ok |-> TRUE, rf |-> rf, wf |-> wf,
              ft |-> ft1 @@ (wf :> [name |-> "pipe", off |-> 0, readable |-> FALSE,
                                    writable |-> TRUE, ref |-> 1])]

PipeUndo_keep(of, fd0) == of

\* if (fd0 >= 0) proc->ofile[fd0] = 0;
PipeUndo(of, fd0) == IF fd0 >= 0 THEN [of EXCEPT ![fd0] = 0] ELSE of

\* sys_pipe(fd): [r, of, ft, out]; out is what the caller's array receives.
sys_pipe(of, ft, argsok, full) ==
    LET pa == pipealloc(ft, full)
        fd0 == fdalloc(of)
        of1 == IF fd0 >= 0 THEN [of EXCEPT ![fd0] = pa.rf] ELSE of
        fd1 == fdalloc(of1)
    IN  IF ~argsok \/ ~pa.ok
        THEN [r |-> -1, of |-> of, ft |-> ft, out |-> <<>>]
        ELSE IF fd0 < 0 \/ fd1 < 0
        THEN [r |-> -1, of |-> PipeUndo(of1, fd0),
              ft |-> fileclose(fileclose(pa.ft, pa.rf), pa.wf), out |-> <<>>]
        ELSE [r |-> 0, of |-> [of1 EXCEPT ![fd1] = pa.wf], ft |-> pa.ft,
              out |-> <<fd0, fd1>>]

\* The arguments the calls are made with.  A call whose arguments cannot be
\* fetched (argstr, argint, argptr < 0) has no path to speak of.
CallPaths == {"pages", "flag", Root, Orphan}
Modes == {O_RDONLY, O_WRONLY, O_RDWR, O_CREATE + O_RDWR}
OpenArgs ==
    {[ok |-> TRUE, path |-> x, omode |-> m] :
        x \in CallPaths, m \in Modes}
    \cup {[ok |-> FALSE, path |-> Root, omode |-> O_RDONLY]}
LinkArgs ==
    {[ok |-> TRUE, old |-> x, new |-> y] :
        x \in CallPaths, y \in CallPaths}
    \cup {[ok |-> FALSE, old |-> Root, new |-> Root]}

\* What a direct call found when it was entered.
Entered(p, name) ==
    [NoCall EXCEPT !.name = name, !.p = p, !.ofile0 = ptable[p].ofile, !.ft0 = ftable,
                   !.fs0 = fsys, !.layer0 = fslayer]

CanCall(p) == Alive(p) /\ pc[p] = "user" /\ calls < MaxCalls

\* fd = the_opener(path, omode), called from the kernel on behalf of p.
the_opener_call(p) ==
    /\ CanCall(p)
    /\ \E path \in CallPaths, omode \in Modes, full \in FullOutcomes :
       LET o == the_opener(ptable[p].ofile, ftable, fsys, path, omode, full)
       IN  /\ ptable' = [ptable EXCEPT ![p].ofile = o.of]
           /\ ftable' = o.ft
           /\ fsys' = o.fs
           /\ fslayer' = Run(fslayer, o.ev)
           /\ faults' = Spend(~full)
           /\ ret' = [ret EXCEPT ![p] = <<o.fd>>]
           /\ fscall' = [Entered(p, "the_opener") EXCEPT !.path = path, !.omode = omode,
                                                         !.full = full, !.r = o.fd]
    /\ calls' = calls + 1
    /\ UNCHANGED <<kstack, pc, loc, msgs, nextpid, panicked, lastck, gh>>

\* The system call open(path, omode).
sys_open_call(p) ==
    /\ CanCall(p)
    /\ \E a \in OpenArgs, full \in FullOutcomes :
       LET o == sys_open(ptable[p].ofile, ftable, fsys, a.ok, a.path, a.omode, full)
       IN  /\ ptable' = [ptable EXCEPT ![p].ofile = o.of]
           /\ ftable' = o.ft
           /\ fsys' = o.fs
           /\ fslayer' = Run(fslayer, o.ev)
           /\ faults' = Spend(~full)
           /\ ret' = [ret EXCEPT ![p] = <<o.fd>>]
           /\ fscall' = [Entered(p, "sys_open") EXCEPT !.path = a.path, !.omode = a.omode,
                                                       !.argsok = a.ok, !.full = full, !.r = o.fd]
    /\ calls' = calls + 1
    /\ UNCHANGED <<kstack, pc, loc, msgs, nextpid, panicked, lastck, gh>>

\* The system call link(old, new).
sys_link_call(p) ==
    /\ CanCall(p)
    /\ \E a \in LinkArgs :
       LET o == sys_link(fsys, a.ok, a.old, a.new)
       IN  /\ fsys' = o.fs
           /\ fslayer' = Run(fslayer, o.ev)
           /\ ret' = [ret EXCEPT ![p] = <<o.r>>]
           /\ fscall' = [Entered(p, "sys_link") EXCEPT !.old = a.old, !.new = a.new,
                                                       !.argsok = a.ok, !.r = o.r]
    /\ calls' = calls + 1
    /\ UNCHANGED <<ptable, kstack, ftable, pc, loc, msgs, nextpid, faults, panicked,
                   lastck, gh>>

\* The system call pipe(fd).
sys_pipe_call(p) ==
    /\ CanCall(p)
    /\ \E argsok \in BOOLEAN :
       \E full \in (IF argsok THEN FullOutcomes ELSE {FALSE}) :
       LET o == sys_pipe(ptable[p].ofile, ftable, argsok, full)
       IN  /\ ptable' = [ptable EXCEPT ![p].ofile = o.of]
           /\ ftable' = o.ft
           /\ faults' = Spend(~full)
           /\ ret' = [ret EXCEPT ![p] = <<o.r>>]
           /\ fscall' = [Entered(p, "sys_pipe") EXCEPT !.argsok = argsok, !.full = full,
                                                       !.r = o.r, !.out = o.out]
    /\ calls' = calls + 1
    /\ UNCHANGED <<kstack, fsys, pc, loc, msgs, nextpid, panicked, lastck, gh, fslayer>>

\* One process runs; the root directory is there and holds the file "pages".
FsInit ==
    /\ \E used \in Levels :
          /\ ptable = [s \in Slots |->
                         IF s = 1 THEN InitProc(1, PGSIZE, PageTable(PGSIZE), used)
                         ELSE Unused]
          /\ ftable = (Console :> [name |-> "console", off |-> 0, readable |-> TRUE,
                                   writable |-> TRUE, ref |-> used])
    /\ fsys = [a \in Paths |->
                 IF a = Root THEN [type |-> "dir", data |-> <<>>]
                 ELSE IF a = "pages" THEN [type |-> "file", data |-> <<>>]
                 ELSE [type |-> "none", data |-> <<>>]]
    /\ kstack = [s \in Slots |-> IF s = 1 THEN [context |-> 100 + s, tf |-> 200 + s]
                                 ELSE [context |-> Junk, tf |-> Junk]]
    /\ pc = [s \in Slots |-> "user"]
    /\ loc = [s \in Slots |-> NoLocals]
    /\ ret = [s \in Slots |-> <<>>]
    /\ msgs = [s \in Slots |-> {}]
    /\ nextpid = 3
    /\ faults = 0
    /\ calls = 0
    /\ panicked = FALSE
    /\ lastck = 0
    /\ gh = [s \in Slots |-> NoHistory]
    /\ fslayer = FsLayer(fsys)
    /\ fscall = NoCall

FsNext ==
    \E p \in Slots :
        \/ the_opener_call(p)
        \/ sys_open_call(p)
        \/ sys_link_call(p)
        \/ sys_pipe_call(p)

SpecFs == FsInit /\ [][FsNext]_vars

\* ------------------------------------------------------------------ claims
InCheckpoint(p) == gh[p].call = "isvpcb"
InRestore(p) == gh[p].call = "ildpcb"
Returned(p) == pc[p] = "user" /\ ret[p] # <<>>
\* The calling process was terminated by exit().
Terminated(p) == pc[p] = "exited" /\ ptable[p].state = "ZOMBIE"
\* The struct file's open on an artifact.
OpenOn(a) == {h \in DOMAIN ftable : ftable[h].name = a}

\* Page k of process n is page k of process o: same content, same flags.
SamePage(n, o, k) ==
    /\ k <= Len(ptable[n].pgdir)
    /\ ptable[n].pgdir[k].content = ptable[o].pgdir[k].content
    /\ ptable[n].pgdir[k].flags = ptable[o].pgdir[k].flags

\* A Restore of process p that returned, entered right after a Checkpoint of
\* process gh[p].src had run to "Write is done", with nothing failing around it:
\* every open of both calls succeeded, a free process slot, no injected failure.
RestoredAfterCheckpoint(p) ==
    /\ InRestore(p) /\ Returned(p)
    /\ gh[p].src # 0
    /\ gh[gh[p].src].openfail = {}
    /\ faults = 0
    /\ gh[p].free >= Len(OpenOrder)
    /\ gh[p].newslot # 0 \/ FreeSlots(ptable) # {}

\* C1: Checkpoint run to completion and then Restore yields a new process in
\* which every page in [0,S) has the content and the permission flags of the
\* original page at that index.
C1_RoundTrip ==
    \A p \in Slots :
        RestoredAfterCheckpoint(p) =>
            /\ ret[p][1] > 0
            /\ gh[p].newslot # 0
            /\ \A k \in 1..NPages(ptable[gh[p].src].sz) :
                   SamePage(gh[p].newslot, gh[p].src, k)

\* Position of an artifact in the order of production.
Ord(a) ==
    IF a \in {"pages", "flag"} THEN 1
    ELSE IF a = "context" THEN 2
    ELSE IF a = "trapframe" THEN 3
    ELSE 4
\* Checkpoint p has begun producing artifact a: a handle on it is open, or a
\* record of it has been written.
Begun(p, a) == OpenOn(a) # {} \/ gh[p].wrote[a] > 0
\* Checkpoint p has finished with artifact a: the sweep has written a block
\* for every page (pages, flag), the record is written (the others), and no
\* handle on it is open.
Finished(p, a) ==
    /\ OpenOn(a) = {}
    /\ IF a \in {"pages", "flag"}
       THEN gh[p].wrote["pages"] = NPages(ptable[p].sz)
       ELSE gh[p].wrote[a] = 1

ErrMsgs ==
    {"err_create_uvm", "err_write_uvm"} \cup
    {"err_create_" \o a : a \in {"context", "trapframe", "proc"}} \cup
    {"err_write_" \o a : a \in {"context", "trapframe", "proc"}}
Diagnosed(p) == msgs[p] \cap ErrMsgs # {}
\* An open or a write of the call has failed, and the statement after it has run.
FailedIn(p) == (gh[p].openfail # {} \/ gh[p].short) /\ pc[p] # "sv_flag"
AllFiveWritten(p) ==
    /\ \A a \in Artifacts : OpenOn(a) = {}
    /\ gh[p].wrote["pages"] = NPages(ptable[p].sz)
    /\ gh[p].wrote["flag"] = NPages(ptable[p].sz)
    /\ \A a \in {"context", "trapframe", "proc"} : gh[p].wrote[a] = 1

\* C3: Checkpoint never returns a value; it reports "Write is done" and
\* terminates the caller only after all five artifacts are written and closed,
\* and on every failure it prints a diagnostic and terminates the caller.
C3_NeverReturns ==
    \A p \in Slots :
        InCheckpoint(p) =>
            /\ ret[p] = <<>>
            /\ "write_done" \in msgs[p] => AllFiveWritten(p)
            /\ (FailedIn(p) /\ ~panicked) => (Terminated(p) /\ Diagnosed(p))

\* C4: a write of Checkpoint that transfers fewer bytes than requested aborts
\* the call: the caller is terminated, no further write is made and "Write is
\* done" is never reported.
C4_ShortWriteAborts ==
    \A p \in Slots :
        (InCheckpoint(p) /\ gh[p].short) =>
            /\ Terminated(p)
            /\ ~gh[p].late
            /\ "write_done" \notin msgs[p]

\* C5: when the open-or-create of one of the five artifacts fails, Checkpoint
\* prints a diagnostic and terminates the caller before it indexes the
\* open-file table with the negative descriptor.
C5_OpenFailureAborts ==
    \A p \in Slots :
        (InCheckpoint(p) /\ gh[p].openfail # {}) =>
            /\ gh[p].oob = {}
            /\ (pc[p] # "sv_flag" /\ ~panicked) => (Terminated(p) /\ Diagnosed(p))

\* C6: when one of the five artifacts cannot be opened, Restore aborts with a
\* negative result: no process is created and no open-file-table slot outside
\* 0..NOFILE-1 is read or cleared.
C6_RestoreOpenFailure ==
    \A p \in Slots :
        (InRestore(p) /\ gh[p].openfail # {}) =>
            /\ gh[p].oob = {}
            /\ gh[p].newslot = 0
            /\ Returned(p) => ret[p][1] < 0

\* C7: when the read of the context, trap-frame or descriptor record returns
\* fewer bytes than the record (all five artifacts having been opened), Restore
\* reports a negative result and creates no process from the partially filled
\* buffers.
C7_ShortReadAborts ==
    \A p \in Slots :
        (InRestore(p) /\ gh[p].openfail = {} /\ gh[p].shortread) =>
            /\ gh[p].newslot = 0
            /\ Returned(p) => ret[p][1] < 0

C9_NoStaleStore ==
    [][\A p \in Slots :
          (pc[p] = "ld_install" /\ gh[p].gotproc) =>
              (gh'[p].deref = {} /\ kstack' = kstack)]_vars

\* Every Checkpoint called so far has run to "Write is done", and no write or
\* open has failed.
AllCompleted ==
    /\ faults = 0
    /\ \A q \in Slots : InCheckpoint(q) => ("write_done" \in msgs[q] /\ gh[q].openfail = {})

\* C10: after any sequence of completed Checkpoints the pages artifact holds N
\* blocks and the flag artifact N words, with N x page size the size recorded
\* in the proc artifact, and every flag word has the present bit.
C10_ArtifactInvariant ==
    (lastck # 0 /\ AllCompleted) =>
        /\ Len(fsys["flag"].data) = Len(fsys["pages"].data)
        /\ fsys["proc"].data # <<>>
        /\ Len(fsys["pages"].data) * PGSIZE = fsys["proc"].data[1].sz
        /\ \A k \in 1..Len(fsys["flag"].data) : Bit(fsys["flag"].data[k], PTE_P)

\* The sweep of Checkpoint p has completed: both files are closed and the
\* context stage has not begun.
SweepDone(p) == InCheckpoint(p) /\ pc[p] = "sv_open" /\ loc[p].stage = 1

\* C11: the sweep changes no page and no page-table entry of the caller;
\* while it runs only the two slots it allocated differ from the table at
\* entry, and when it completes those are cleared, no handle on the pages or
\* flag artifact is left open and the table is the table at entry.
C11_SweepFrame ==
    \A p \in Slots :
        (InCheckpoint(p) /\ ~panicked) =>
            /\ ptable[p].pgdir = gh[p].pgdir0
            /\ pc[p] = "sv_loop" =>
                   \A fd \in 0..(NOFILE - 1) :
                       fd \notin {loc[p].fd, loc[p].fd2} =>
                           ptable[p].ofile[fd] = gh[p].ofile0[fd]
            /\ SweepDone(p) =>
                   /\ ptable[p].ofile = gh[p].ofile0
                   /\ OpenOn("pages") = {} /\ OpenOn("flag") = {}

\* C11 witness: a two-page process with the console open has completed its
\* sweep, two blocks and two flag words written.
C11_Witness ==
    \E p \in Slots :
        /\ SweepDone(p) /\ ~panicked
        /\ gh[p].wrote["pages"] = 2 /\ gh[p].wrote["flag"] = 2
        /\ ptable[p].ofile[0] = Console

LdStates == {"ld_read", "ld_install", "ld_load", "ld_close"}
\* The handles Restore p holds are readable and not writable.
ReadOnlyHandles(p) ==
    \A a \in Artifacts :
        ValidFile(ftable, loc[p].fls[a]) =>
            (ftable[loc[p].fls[a]].readable /\ ~ftable[loc[p].fls[a]].writable)

\* C12: Restore does not mutate the artifact set: no step of a Restore (its
\* entry, its reads, the loader, its return) changes the content of an
\* artifact or creates one, and the handles it holds are never writable.
C12_RestoreReadOnly ==
    [][\A p \in Slots :
          (pc[p] \in LdStates \/ pc'[p] \in LdStates) =>
              /\ fsys' = fsys
              /\ pc'[p] \in LdStates => ReadOnlyHandles(p)']_vars

\* C12 witness: a Restore has read a full artifact set of a one-page process
\* and returned the pid of the process built from it.
C12_Witness ==
    \E p \in Slots :
        /\ InRestore(p) /\ Returned(p) /\ gh[p].gotproc
        /\ ret[p][1] > 0
        /\ Len(fsys["pages"].data) = 1 /\ Len(fsys["flag"].data) = 1

\* The sweep of process p stands at a page-aligned address below the size
\* whose page has no entry or no present bit.
AtHole(p) ==
    /\ pc[p] = "sv_loop" /\ loc[p].i < ptable[p].sz
    /\ LET k == (loc[p].i \div PGSIZE) + 1
       IN  k > Len(ptable[p].pgdir) \/ ~Bit(ptable[p].pgdir[k].flags, PTE_P)

\* C13: when the sweep has panicked at a bad page a, exactly the blocks and
\* the flag words of the pages below a are written, and this Checkpoint has
\* produced no context, trapframe or proc artifact.
C13_PanicAtBadPage ==
    \A p \in Slots :
        (InCheckpoint(p) /\ panicked /\ AtHole(p)) =>
            /\ gh[p].wrote["pages"] = loc[p].i \div PGSIZE
            /\ gh[p].wrote["flag"] = loc[p].i \div PGSIZE
            /\ \A a \in {"context", "trapframe", "proc"} :
                   gh[p].wrote[a] = 0 /\ OpenOn(a) = {}

\* C14: on every return of Restore the caller's open-file table is the table
\* at entry, no handle on any of the five artifacts is left open, and the
\* value returned is the loader's result.
C14_RestoreReturn ==
    [][\A p \in Slots :
          (pc[p] = "ld_close" /\ pc'[p] = "user") =>
              /\ ptable'[p].ofile = gh[p].ofile0
              /\ \A a \in Artifacts : OpenOn(a)' = {}
              /\ ret'[p] = <<gh[p].result>>
              /\ gh[p].result # 0]_vars

\* C14 witness: a Restore that opened all five artifacts has returned the
\* loader's negative result.
C14_Witness ==
    \E p \in Slots :
        /\ InRestore(p) /\ Returned(p)
        /\ gh[p].openfail = {} /\ gh[p].gotproc
        /\ gh[p].result < 0 /\ ret[p][1] < 0

\* C16: the open-file table inside the proc artifact is the caller's table as
\* it was on entry to Checkpoint: once the descriptor record is written (no
\* open and no write having failed), the table it carries has no slot that
\* refers to a handle Checkpoint opened.
C16_RecordedOfile ==
    \A p \in Slots :
        (InCheckpoint(p) /\ pc[p] = "sv_done" /\ gh[p].wrote["proc"] = 1
            /\ faults = 0 /\ gh[p].openfail = {}) =>
            /\ fsys["proc"].data # <<>>
            /\ fsys["proc"].data[1].ofile = gh[p].ofile0

\* The artifacts hold the image of process s as its Checkpoint saw it: its
\* pages in order, its context, its trap frame and its descriptor record.
OneImage(s) ==
    /\ InCheckpoint(s)
    /\ \A k \in 1..Len(gh[s].pgdir0) :
           /\ k <= Len(fsys["pages"].data)
           /\ fsys["pages"].data[k] = gh[s].pgdir0[k].content
    /\ fsys["context"].data = <<kstack[s].context>>
    /\ fsys["trapframe"].data = <<kstack[s].tf>>
    /\ fsys["proc"].data # <<>> /\ fsys["proc"].data[1].pid = ptable[s].pid

\* The three records a Restore has read in full come from one process.
OneSource(p) ==
    /\ loc[p].loaded_proc.pid \in Slots
    /\ loc[p].loaded_context = kstack[loc[p].loaded_proc.pid].context
    /\ loc[p].loaded_tf = kstack[loc[p].loaded_proc.pid].tf

\* C15: however the calls interleave, once every Checkpoint called has run to
\* "Write is done" (no open or write having failed) the artifacts hold the
\* image of exactly one process, and the records a Restore has read in full
\* were written by one and the same Checkpoint.
C15_SelfConsistent ==
    /\ (Quiet /\ AllCompleted /\ \E q \in Slots : InCheckpoint(q)) =>
           \E s \in Slots : OneImage(s)
    /\ \A p \in Slots :
           (InRestore(p) /\ pc[p] = "ld_install" /\ gh[p].gotproc /\ ~gh[p].shortread
               /\ gh[p].openfail = {} /\ faults = 0
               /\ \A q \in Slots : gh[q].openfail = {}) => OneSource(p)

\* The direct call made last, by name.
Called(name) == fscall.name = name

\* C17: the_opener returns the lowest free slot of the caller's open-file
\* table, which then holds a new handle at offset 0, readable unless the mode
\* is write-only and writable exactly for write-only and read-write modes,
\* every other slot being as before; and when it returns -1 the open-file
\* table and the file table are as they were at entry, no inode lock is held
\* and the call keeps no inode reference.
C17_OpenerContract ==
    Called("the_opener") =>
        LET of0 == fscall.ofile0
            of == ptable[fscall.p].ofile
            fd == fscall.r
        IN  IF fd >= 0
            THEN /\ fd \in FdFree(of0)
                 /\ \A g \in FdFree(of0) : fd <= g
                 /\ of[fd] \in DOMAIN ftable \ DOMAIN fscall.ft0
                 /\ ftable[of[fd]].off = 0
                 /\ ftable[of[fd]].readable = ~Bit(fscall.omode, O_WRONLY)
                 /\ ftable[of[fd]].writable =
                        (Bit(fscall.omode, O_WRONLY) \/ Bit(fscall.omode, O_RDWR))
                 /\ \A g \in DOMAIN of0 \ {fd} : of[g] = of0[g]
            ELSE /\ fd = -1
                 /\ of = of0
                 /\ ftable = fscall.ft0
                 /\ fslayer.locked = {}
                 /\ fslayer.held = 0

\* the_opener found the file and a struct file but no free slot, and returned -1.
C17_Witness ==
    /\ Called("the_opener") /\ fscall.r = -1 /\ ~fscall.full
    /\ fscall.fs0[fscall.path].type = "file"
    /\ FdFree(fscall.ofile0) = {}

\* C18: after a call of the_opener or sys_open, successful or failed, no log
\* transaction is outstanding, no inode lock is held, and the call holds no
\* inode reference of its own (the reference of a successful open belongs to
\* the struct file).
C18_OpenBalanced ==
    (Called("the_opener") \/ Called("sys_open")) =>
        /\ fslayer.log = 0
        /\ fslayer.locked = {}
        /\ fslayer.held = 0

\* sys_open locked the root directory, found it may not be written, and returned -1.
C18_Witness ==
    /\ Called("sys_open") /\ fscall.argsok /\ fscall.r = -1
    /\ fscall.fs0[fscall.path].type = "dir"
    /\ fscall.omode = O_RDWR
    /\ fscall.layer0.log = 0

\* C19: when sys_link returns -1 the link counts and the directory are as
\* they were at entry; when it returns 0 the link count of the old inode is
\* one higher, the new name is bound to it, and nothing else has changed.
C19_LinkRollback ==
    Called("sys_link") =>
        LET l0 == fscall.layer0
            i == l0.dir[fscall.old]
        IN  IF fscall.r = 0
            THEN /\ i # 0
                 /\ fslayer.nlink = [l0.nlink EXCEPT ![i] = @ + 1]
                 /\ fslayer.dir = [l0.dir EXCEPT ![fscall.new] = i]
                 /\ l0.dir[fscall.new] = 0
            ELSE /\ fscall.r = -1
                 /\ fslayer.nlink = l0.nlink
                 /\ fslayer.dir = l0.dir
                 /\ fsys = fscall.fs0

\* sys_link raised the link count of a file, found the new name taken (or its
\* parent missing), and returned -1.
C19_Witness ==
    /\ Called("sys_link") /\ fscall.argsok /\ fscall.r = -1
    /\ fscall.fs0[fscall.old].type = "file"
    /\ fscall.layer0.nlink[fscall.layer0.dir[fscall.old]] >= 1

\* C20: when sys_pipe returns 0 the caller's array names two different slots
\* that were free at entry and now hold the read end and the write end, two
\* new struct files, every other slot being as before; when it returns -1 the
\* open-file table and the file table are as they were at entry.
C20_PipeAllOrNothing ==
    Called("sys_pipe") =>
        LET of0 == fscall.ofile0
            of == ptable[fscall.p].ofile
        IN  IF fscall.r = 0
            THEN /\ Len(fscall.out) = 2
                 /\ fscall.out[1] # fscall.out[2]
                 /\ {fscall.out[1], fscall.out[2]} \subseteq FdFree(of0)
                 /\ {of[fscall.out[1]], of[fscall.out[2]]} \subseteq
                        DOMAIN ftable \ DOMAIN fscall.ft0
                 /\ ftable[of[fscall.out[1]]].readable
                 /\ ftable[of[fscall.out[2]]].writable
                 /\ \A g \in DOMAIN of0 \ {fscall.out[1], fscall.out[2]} : of[g] = of0[g]
            ELSE /\ fscall.r = -1
                 /\ of = of0
                 /\ ftable = fscall.ft0

\* sys_pipe got both ends and the one free slot for the read end, found none
\* for the write end, and returned -1.
C20_Witness ==
    /\ Called("sys_pipe") /\ fscall.argsok /\ ~fscall.full /\ fscall.r = -1
    /\ Cardinality(FdFree(fscall.ofile0)) = 1

====
